---- MODULE Spec2Model ----
(***************************************************************************)
(* Model of LRU_Cache<Key, Value> ("LRU Cache.h"), instantiated as in      *)
(* main.cpp with Key = Value = int.                                        *)
(*                                                                         *)
(* m_list is the std::list<Key>: a sequence of nodes, front at index 1.    *)
(* Each node has an identity (id), which is what a list iterator denotes.  *)
(* m_map is the std::unordered_map: a function from the resident keys to   *)
(* the pair (first = value, second = list iterator).                       *)
(* The two callbacks belong to the embedding application; the model        *)
(* records each invocation (clog, dlog).                                   *)
(* Private helpers and public methods are operators on a record of the     *)
(* object's members; they return the set of outcomes the call can have,    *)
(* which is a singleton except where the C++ has undefined behaviour.      *)
(*                                                                         *)
(* A step of the model is one whole public call (pc goes from "live" to    *)
(* "returned", and last, clog, dlog hold what the call returned and which  *)
(* callbacks it ran), or the caller going on to its next call (Resume).    *)
(* tick, promo, deleter_fixed and owed are history variables: they record  *)
(* which calls were made, and no method reads them.                        *)
(***************************************************************************)
EXTENDS Integers, Sequences, FiniteSets, TLC

\* ---- bounds of the model ------------------------------------------------
MaxCap  == 3      \* capacities (constructor, resize) are 0..MaxCap
MaxTick == 4      \* promoting operations per run

\* the keys and values the caller passes: enough keys to fill the largest
\* capacity and to overflow the smaller ones, and two values that can be
\* told apart
Keys   == {1, 2, 3}
Values == {1, 2}
Caps   == 0..MaxCap

\* Value() for Value = int
DefaultValue == 0

nullptr == "nullptr"
\* the creators and deleters the application may install
CreateCallbacks == {"twice"}
DeleteCallbacks == {"f"}

\* m_create_callback(key): the application's creator, key -> key * 2
create_call(cb, key) == 2 * key

AllValues == Values \cup {DefaultValue} \cup {create_call("twice", k) : k \in Keys}

VARIABLES
    m_list,             \* std::list<Key>: sequence of [id, key]
    m_map,              \* std::unordered_map<Key, pair<Value, list iterator>>
    m_capacity,
    m_create_callback,
    m_delete_callback,
    clog,               \* keys m_create_callback was called with by the last call
    dlog,               \* [cb, val]: delete callback invocations of the last call
    pc,                 \* the caller: "live" (between calls), "returned" (a call
                        \* has just returned), "destroyed" (after ~LRU_Cache),
                        \* "crashed" (the process died in a call)
    last,               \* the call that has just returned: arguments and result
    tick,               \* history: number of promoting operations so far
    promo,              \* history: the resident keys, latest promoted first
    deleter_fixed,      \* history: the constructor's deleter is installed
    owed                \* history: values stored minus on_delete invocations,
                        \*          counted while deleter_fixed

vars == <<m_list, m_map, m_capacity, m_create_callback, m_delete_callback,
          clog, dlog, pc, last, tick, promo, deleter_fixed, owed>>

\* ---- the object ---------------------------------------------------------
Self ==
    [m_list |-> m_list, m_map |-> m_map, m_capacity |-> m_capacity,
     m_create_callback |-> m_create_callback,
     m_delete_callback |-> m_delete_callback,
     clog |-> <<>>, dlog |-> <<>>, crashed |-> FALSE]

size(c) == Cardinality(DOMAIN c.m_map)

contains_key(c, key) == key \in DOMAIN c.m_map

\* ---- std::list ----------------------------------------------------------
\* the node a push_front allocates: an identity no live node has
new_node(l) ==
    CHOOSE n \in 1..(Len(l) + 1) :
        /\ \A i \in 1..Len(l) : l[i].id # n
        /\ \A m \in 1..(n - 1) : \E i \in 1..Len(l) : l[i].id = m

push_front(l, key) == <<[id |-> new_node(l), key |-> key]>> \o l

list_erase(l, ref) == SelectSeq(l, LAMBDA nd : nd.id # ref)

pop_back(l) == SubSeq(l, 1, Len(l) - 1)

\* ---- callbacks ----------------------------------------------------------
\* mutant of the deleter's call: the callback is not tested before the call
delete_call_unchecked(c, value) ==
    [c EXCEPT !.dlog = Append(@, [cb |-> c.m_delete_callback, val |-> value])]

\* if(m_delete_callback) m_delete_callback(value);
delete_call(c, value) ==
    IF c.m_delete_callback # nullptr
    THEN [c EXCEPT !.dlog = Append(@, [cb |-> c.m_delete_callback, val |-> value])]
    ELSE c

crash(c) == [c EXCEPT !.crashed = TRUE]

\* ---- private helpers ----------------------------------------------------
map_erase(c, key) ==
    LET c1 == delete_call(c, c.m_map[key].first)
    IN  [c1 EXCEPT !.m_map = [x \in (DOMAIN c.m_map) \ {key} |-> c.m_map[x]]]

\* map_erase(m_map.end()): the end iterator is dereferenced and erased, which
\* is undefined. The process dies, or it goes on: then the deleter, if any,
\* has been called with an indeterminate value and the map is as it was.
map_erase_end(c) ==
    {crash(c)} \cup {delete_call(c, g) : g \in AllValues}

\* mutant of erase_oldest: front() and pop_front() in place of back() and
\* pop_back()
erase_newest(c) ==
    IF c.m_list = <<>>
    THEN {crash(c)} \cup map_erase_end(c)
    ELSE LET key == c.m_list[1].key
             c1  == [c EXCEPT !.m_list = Tail(@)]
         IN  IF key \in DOMAIN c1.m_map
             THEN {map_erase(c1, key)}
             ELSE map_erase_end(c1)

\* m_list.back() and pop_back() on an empty list are undefined; find() of the
\* indeterminate key in the (empty) map gives end().
erase_oldest(c) ==
    IF c.m_list = <<>>
    THEN {crash(c)} \cup map_erase_end(c)
    ELSE LET key == c.m_list[Len(c.m_list)].key
             c1  == [c EXCEPT !.m_list = pop_back(@)]
         IN  IF key \in DOMAIN c1.m_map
             THEN {map_erase(c1, key)}
             ELSE map_erase_end(c1)

RECURSIVE trim_loop(_)
\* do { erase_oldest(); } while(m_list.size() > m_capacity);
trim_loop(c) ==
    UNION { IF o.crashed \/ ~(Len(o.m_list) > o.m_capacity)
            THEN {o}
            ELSE trim_loop(o) : o \in erase_oldest(c) }

\* mutant of trim: one entry is removed, the loop is not repeated
trim_once(c) ==
    IF size(c) <= c.m_capacity THEN {c} ELSE erase_oldest(c)

\* bool trim()
trim(c) ==
    IF size(c) <= c.m_capacity THEN {c} ELSE trim_loop(c)

make_space(c) ==
    IF size(c) = c.m_capacity THEN erase_oldest(c) ELSE {c}

\* ---- public methods -----------------------------------------------------
\* an outcome: the object afterwards, the bool returned (or has_value()),
\* and the value returned (DefaultValue where the call returns none)
Out(c, ok, ret) == [c |-> c, ok |-> ok, ret |-> ret]

map_put(m, key, pair) ==
    [x \in (DOMAIN m) \cup {key} |-> IF x = key THEN pair ELSE m[x]]

\* mutant of insert: make_space() hoisted out of the test for the key
insert_space_first(c, key, val) ==
    { IF o.crashed \/ contains_key(o, key)
      THEN Out(o, FALSE, DefaultValue)
      ELSE LET l == push_front(o.m_list, key)
           IN  Out([o EXCEPT !.m_list = l,
                             !.m_map = map_put(@, key,
                                         [first |-> val, second |-> l[1].id])],
                   TRUE, DefaultValue)
      : o \in make_space(c) }

insert(c, key, val) ==
    IF ~contains_key(c, key)
    THEN { IF o.crashed
           THEN Out(o, FALSE, DefaultValue)
           ELSE LET l == push_front(o.m_list, key)
                IN  Out([o EXCEPT !.m_list = l,
                                  !.m_map = map_put(@, key,
                                              [first |-> val, second |-> l[1].id])],
                        TRUE, DefaultValue)
           : o \in make_space(c) }
    ELSE {Out(c, FALSE, DefaultValue)}

\* mutant of touch(iter): the key changes places with the key at the front
touch_iter_swap(c, key) ==
    LET listRef == c.m_map[key].second
        front   == c.m_list[1]
        l       == [i \in 1..Len(c.m_list) |->
                        IF i = 1 THEN [c.m_list[i] EXCEPT !.key = key]
                        ELSE IF c.m_list[i].id = listRef
                             THEN [c.m_list[i] EXCEPT !.key = front.key]
                             ELSE c.m_list[i]]
    IN  [c EXCEPT !.m_list = l,
                  !.m_map = [k \in DOMAIN c.m_map |->
                                IF k = key
                                THEN [c.m_map[k] EXCEPT !.second = front.id]
                                ELSE IF k = front.key
                                     THEN [c.m_map[k] EXCEPT !.second = listRef]
                                     ELSE c.m_map[k]]]

\* mutant of touch(iter): the back-reference is not set to the new node
touch_iter_stale(c, key) ==
    LET listRef == c.m_map[key].second
        l       == push_front(list_erase(c.m_list, listRef), key)
    IN  [c EXCEPT !.m_list = l]

\* mutant of touch(iter): push_back in place of push_front
touch_iter_back(c, key) ==
    LET listRef == c.m_map[key].second
        rest    == list_erase(c.m_list, listRef)
        l       == rest \o <<[id |-> new_node(rest), key |-> key]>>
    IN  [c EXCEPT !.m_list = l, !.m_map[key].second = l[Len(l)].id]

\* void touch(map_iterator& iter)
touch_iter(c, key) ==
    LET listRef == c.m_map[key].second
        l       == push_front(list_erase(c.m_list, listRef), key)
    IN  [c EXCEPT !.m_list = l, !.m_map[key].second = l[1].id]

\* mutant of touch(key): true is returned and the key stays where it is
touch_unmoved(c, key) ==
    {Out(c, contains_key(c, key), DefaultValue)}

\* bool touch(const Key& key)
touch(c, key) ==
    IF contains_key(c, key)
    THEN {Out(touch_iter(c, key), TRUE, DefaultValue)}
    ELSE {Out(c, FALSE, DefaultValue)}

\* mutant of assign(iter, val): the value is replaced before the deleter runs
assign_iter_late(c, key, val) ==
    LET c1 == [c EXCEPT !.m_map[key].first = val]
        c2 == delete_call(c1, c1.m_map[key].first)
    IN  touch_iter(c2, key)

\* void assign(map_iterator& iter, const Value& val)
assign_iter(c, key, val) ==
    LET c1 == delete_call(c, c.m_map[key].first)
        c2 == touch_iter(c1, key)
    IN  [c2 EXCEPT !.m_map[key].first = val]

\* mutant of assign(key, value): an absent key is inserted
assign_or_insert(c, key, val) ==
    IF contains_key(c, key)
    THEN {Out(assign_iter(c, key, val), TRUE, DefaultValue)}
    ELSE {Out(o.c, FALSE, DefaultValue) : o \in insert(c, key, val)}

\* bool assign(const Key& key, const Value& value)
assign(c, key, val) ==
    IF contains_key(c, key)
    THEN {Out(assign_iter(c, key, val), TRUE, DefaultValue)}
    ELSE {Out(c, FALSE, DefaultValue)}

\* mutant of insert_or_assign: a resident key keeps its value and its place
insert_or_keep(c, key, val) ==
    {Out(o.c, ~o.c.crashed, DefaultValue) : o \in insert(c, key, val)}

\* void insert_or_assign(const Key& key, const Value& val)
insert_or_assign(c, key, val) ==
    IF contains_key(c, key)
    THEN {Out(assign_iter(c, key, val), TRUE, DefaultValue)}
    ELSE {Out(o.c, ~o.c.crashed, DefaultValue) : o \in insert(c, key, val)}

contains(c, key) == {Out(c, contains_key(c, key), DefaultValue)}

\* mutant of at: the key read is touched, as get does
at_touching(c, key) ==
    IF contains_key(c, key)
    THEN {Out(touch_iter(c, key), TRUE, c.m_map[key].first)}
    ELSE {Out(c, FALSE, DefaultValue)}

at(c, key) ==
    IF contains_key(c, key)
    THEN {Out(c, TRUE, c.m_map[key].first)}
    ELSE {Out(c, FALSE, DefaultValue)}

get(c, key) ==
    IF contains_key(c, key)
    THEN { Out(o.c, TRUE, o.c.m_map[key].first) : o \in touch(c, key) }
    ELSE LET made == c.m_create_callback # nullptr
             val  == IF made THEN create_call(c.m_create_callback, key)
                             ELSE DefaultValue
             c1   == IF made THEN [c EXCEPT !.clog = Append(@, key)] ELSE c
         IN  { IF o.c.crashed
               THEN Out(o.c, FALSE, DefaultValue)
               ELSE Out(o.c, TRUE, o.c.m_map[key].first)
               : o \in insert(c1, key, val) }

\* mutant of erase: the entry leaves the map without a call of the deleter
erase_unnotified(c, key) ==
    IF contains_key(c, key)
    THEN {Out([c EXCEPT !.m_list = list_erase(@, c.m_map[key].second),
                        !.m_map = [x \in (DOMAIN c.m_map) \ {key} |-> c.m_map[x]]],
              TRUE, DefaultValue)}
    ELSE {Out(c, FALSE, DefaultValue)}

\* bool erase(const Key& key)
erase(c, key) ==
    IF contains_key(c, key)
    THEN {Out(map_erase([c EXCEPT !.m_list = list_erase(@, c.m_map[key].second)],
                        key),
              TRUE, DefaultValue)}
    ELSE {Out(c, FALSE, DefaultValue)}

\* mutant of clear: the capacity stays 0
clear_zeroed(c) ==
    { Out(o, ~o.crashed, DefaultValue) : o \in trim([c EXCEPT !.m_capacity = 0]) }

\* void clear()
clear(c) ==
    LET orig_capacity == c.m_capacity
    IN  { Out(IF o.crashed THEN o ELSE [o EXCEPT !.m_capacity = orig_capacity],
              ~o.crashed, DefaultValue)
          : o \in trim([c EXCEPT !.m_capacity = 0]) }

resize(c, newSize) ==
    { Out(o, ~o.crashed, DefaultValue) : o \in trim([c EXCEPT !.m_capacity = newSize]) }

setCreateCallback(c, callback) ==
    {Out([c EXCEPT !.m_create_callback = callback], TRUE, DefaultValue)}

setDeleteCallback(c, callback) ==
    {Out([c EXCEPT !.m_delete_callback = callback], TRUE, DefaultValue)}

RECURSIVE destroy_loop(_, _)
\* for(auto& iter : m_map) if(m_delete_callback) m_delete_callback(...);
\* the map's iteration order is unspecified
destroy_loop(c, todo) ==
    IF todo = {}
    THEN {c}
    ELSE UNION { destroy_loop(delete_call(c, c.m_map[k].first), todo \ {k})
                 : k \in todo }

destroy(c) == { Out(o, TRUE, DefaultValue) : o \in destroy_loop(c, DOMAIN c.m_map) }

\* ---- constructors --------------------------------------------------------
\* LRU_Cache(size_t size, creator = nullptr, deletor = nullptr)
LRU_Cache(capacity, creator, deletor) ==
    [m_list |-> <<>>, m_map |-> [x \in {} |-> 0], m_capacity |-> capacity,
     m_create_callback |-> creator, m_delete_callback |-> deletor,
     clog |-> <<>>, dlog |-> <<>>, crashed |-> FALSE]

RECURSIVE load_loop(_, _)
\* for(auto& i : il) insert_or_assign(i.first, i.second);
load_loop(c, pairs) ==
    IF pairs = <<>>
    THEN {c}
    ELSE UNION { IF o.c.crashed
                 THEN {o.c}
                 ELSE load_loop(o.c, Tail(pairs))
                 : o \in insert_or_assign(c, Head(pairs).first, Head(pairs).second) }

\* LRU_Cache(std::initializer_list<std::pair<Key, Value>> il)
LRU_Cache_il(pairs) ==
    load_loop(LRU_Cache(Len(pairs), nullptr, nullptr), pairs)

\* the initializer lists the caller writes: up to MaxCap pairs, keys may repeat
Pairs == [first : Keys, second : Values]
Lists == UNION {[1..n -> Pairs] : n \in 0..MaxCap}

\* ---- the state machine --------------------------------------------------
NoCall == [op |-> "none", key |-> 0, val |-> 0, cb |-> nullptr, il |-> <<>>,
           ok |-> TRUE, ret |-> DefaultValue, hit |-> FALSE]

\* a cache as LRU_Cache(size, creator, deletor) constructs it
Init ==
    /\ m_list = <<>>
    /\ m_map = [x \in {} |-> 0]
    /\ m_capacity \in Caps
    /\ m_create_callback \in {nullptr} \cup CreateCallbacks
    /\ m_delete_callback \in {nullptr, "f"}
    /\ clog = <<>>
    /\ dlog = <<>>
    /\ pc = "live"
    /\ last = NoCall
    /\ tick = 0
    /\ promo = <<>>
    /\ deleter_fixed = (m_delete_callback # nullptr)
    /\ owed = 0

\* the keys of the first n pairs, the one listed last first, each key once
RECURSIVE loaded(_, _)
loaded(pairs, n) ==
    IF n = 0
    THEN <<>>
    ELSE <<pairs[n].first>>
            \o SelectSeq(loaded(pairs, n - 1), LAMBDA k : k # pairs[n].first)

\* a cache as LRU_Cache(il) constructs it; each pair loaded is a promoting
\* operation
InitIL ==
    \E pairs \in Lists : \E c \in LRU_Cache_il(pairs) :
        /\ m_list = c.m_list
        /\ m_map = c.m_map
        /\ m_capacity = c.m_capacity
        /\ m_create_callback = c.m_create_callback
        /\ m_delete_callback = c.m_delete_callback
        /\ clog = c.clog
        /\ dlog = c.dlog
        /\ pc = IF c.crashed THEN "crashed" ELSE "returned"
        /\ last = [NoCall EXCEPT !.op = "LRU_Cache", !.il = pairs]
        /\ tick = Len(pairs)
        /\ promo = SelectSeq(loaded(pairs, Len(pairs)),
                             LAMBDA k : k \in DOMAIN c.m_map)
        /\ deleter_fixed = FALSE
        /\ owed = 0

\* The call op(key, val) returns with outcome o. promoted: the call was a
\* promoting operation on key; put: the values it stored (none or one).
\* A setter's argument is a callback: it is passed as val and kept in last.cb.
Return(op, key, val, o, promoted, put) ==
    /\ m_list' = IF op = "~LRU_Cache" THEN <<>> ELSE o.c.m_list
    /\ m_map' = IF op = "~LRU_Cache" THEN [x \in {} |-> 0] ELSE o.c.m_map
    /\ m_capacity' = o.c.m_capacity
    /\ m_create_callback' = o.c.m_create_callback
    /\ m_delete_callback' = o.c.m_delete_callback
    /\ clog' = o.c.clog
    /\ dlog' = o.c.dlog
    /\ pc' = IF o.c.crashed THEN "crashed"
             ELSE IF op = "~LRU_Cache" THEN "destroyed" ELSE "returned"
    /\ last' = LET setter == op \in {"setCreateCallback", "setDeleteCallback"}
               IN  [op |-> op, key |-> key,
                    val |-> IF setter THEN 0 ELSE val,
                    cb |-> IF setter THEN val ELSE nullptr,
                    il |-> <<>>,
                    ok |-> o.ok, ret |-> o.ret,
                    hit |-> key \in DOMAIN m_map]
    /\ tick' = IF promoted THEN tick + 1 ELSE tick
    /\ promo' = LET p == IF promoted
                          THEN <<key>> \o SelectSeq(promo, LAMBDA k : k # key)
                          ELSE promo
                IN  SelectSeq(p, LAMBDA k : k \in DOMAIN o.c.m_map)
    /\ deleter_fixed' = (deleter_fixed /\ op # "setDeleteCallback")
    /\ owed' = IF deleter_fixed'
               THEN owed + Cardinality(put) - Len(o.c.dlog)
               ELSE 0

Live == pc = "live" /\ tick < MaxTick

Insert ==
    \E key \in Keys, val \in Values :
        /\ Live
        /\ \E o \in insert(Self, key, val) :
               Return("insert", key, val, o, o.ok, IF o.ok THEN {val} ELSE {})

InsertOrAssign ==
    \E key \in Keys, val \in Values :
        /\ Live
        /\ \E o \in insert_or_assign(Self, key, val) :
               Return("insert_or_assign", key, val, o, o.ok,
                      IF o.ok THEN {val} ELSE {})

Contains ==
    \E key \in Keys :
        /\ Live
        /\ \E o \in contains(Self, key) :
               Return("contains", key, 0, o, FALSE, {})

At ==
    \E key \in Keys :
        /\ Live
        /\ \E o \in at(Self, key) : Return("at", key, 0, o, FALSE, {})

Get ==
    \E key \in Keys :
        /\ Live
        /\ \E o \in get(Self, key) :
               Return("get", key, 0, o, o.ok,
                      IF o.ok /\ key \notin DOMAIN m_map THEN {o.ret} ELSE {})

Touch ==
    \E key \in Keys :
        /\ Live
        /\ \E o \in touch(Self, key) : Return("touch", key, 0, o, o.ok, {})

Assign ==
    \E key \in Keys, val \in Values :
        /\ Live
        /\ \E o \in assign(Self, key, val) :
               Return("assign", key, val, o, o.ok, IF o.ok THEN {val} ELSE {})

Erase ==
    \E key \in Keys :
        /\ Live
        /\ \E o \in erase(Self, key) : Return("erase", key, 0, o, FALSE, {})

Clear ==
    /\ Live
    /\ \E o \in clear(Self) : Return("clear", 0, 0, o, FALSE, {})

Resize ==
    \E newSize \in Caps :
        /\ Live
        /\ \E o \in resize(Self, newSize) :
               Return("resize", 0, newSize, o, FALSE, {})

SetCreateCallback ==
    \E callback \in {nullptr} \cup CreateCallbacks :
        /\ Live
        /\ \E o \in setCreateCallback(Self, callback) :
               Return("setCreateCallback", 0, callback, o, FALSE, {})

SetDeleteCallback ==
    \E callback \in {nullptr} \cup DeleteCallbacks :
        /\ Live
        /\ \E o \in setDeleteCallback(Self, callback) :
               Return("setDeleteCallback", 0, callback, o, FALSE, {})

\* the destructor's body, then the members' destructors
Destroy ==
    /\ Live
    /\ \E o \in destroy(Self) : Return("~LRU_Cache", 0, 0, o, FALSE, {})

\* the caller has looked at the result and goes on to its next call
Resume ==
    /\ pc = "returned"
    /\ pc' = "live"
    /\ last' = NoCall
    /\ clog' = <<>>
    /\ dlog' = <<>>
    /\ UNCHANGED <<m_list, m_map, m_capacity, m_create_callback,
                   m_delete_callback, tick, promo, deleter_fixed, owed>>

Next ==
    \/ Resume
    \/ Insert
    \/ InsertOrAssign
    \/ Contains
    \/ At
    \/ Get
    \/ Touch
    \/ Assign
    \/ Erase
    \/ Clear
    \/ Resize
    \/ SetCreateCallback
    \/ SetDeleteCallback
    \/ Destroy

Spec == Init /\ [][Next]_vars

\* the same calls on a cache built from an initializer list
SpecIL == InitIL /\ [][Next]_vars

\* ---- vocabulary of the properties ---------------------------------------
Size == Cardinality(DOMAIN m_map)

KeysOf(l) == [i \in 1..Len(l) |-> l[i].key]

Without(s, key) == SelectSeq(s, LAMBDA k : k # key)

ValuesOf(m) == [k \in DOMAIN m |-> m[k].first]

\* this step is a call of op: it returns, or the process dies in it
Called(op) == pc = "live" /\ pc' # "live" /\ last'.op = op

\* this step is a call of op that returns
Returned(op) == pc = "live" /\ pc' = "returned" /\ last'.op = op

NoCallback == clog' = <<>> /\ dlog' = <<>>

\* the delete callback was invoked with these values, in this order, and no other
Deleted(values) ==
    dlog' = IF m_delete_callback = nullptr
            THEN <<>>
            ELSE [i \in 1..Len(values) |->
                    [cb |-> m_delete_callback, val |-> values[i]]]

Inserting == {"insert", "insert_or_assign", "get"}

\* the keys of the list l, as a set
KeySet(l) == {l[i].key : i \in 1..Len(l)}

\* the delete callback was invoked once for each of these keys, with the value
\* the key had before the call, and not otherwise (in whatever order)
DeletedEach(keys) ==
    IF m_delete_callback = nullptr
    THEN dlog' = <<>>
    ELSE /\ Len(dlog') = Cardinality(keys)
         /\ \A i \in 1..Len(dlog') : dlog'[i].cb = m_delete_callback
         /\ \A v \in AllValues :
                Cardinality({i \in 1..Len(dlog') : dlog'[i].val = v})
                    = Cardinality({k \in keys : m_map[k].first = v})

\* ---- C1 ------------------------------------------------------------------
\* C1: after every public call returns, size() <= capacity(), for every
\* capacity given at construction or by resize, 0 included.
C1_SizeWithinCapacity ==
    pc = "returned" => Size <= m_capacity

\* ---- C2 ------------------------------------------------------------------
\* C2: on a cache of capacity 0 every insert, insert_or_assign and get
\* completes without a fatal error and leaves the cache empty.
C2_ZeroCapacityStaysEmpty ==
    (pc \in {"returned", "crashed"} /\ last.op \in Inserting /\ m_capacity = 0)
        => (pc = "returned" /\ Size = 0 /\ m_list = <<>>)

\* ---- C3 ------------------------------------------------------------------
\* C3: when insert, insert_or_assign or get adds a new key to a cache that
\* holds capacity() entries, exactly one resident entry is removed, and it is
\* the one whose latest promoting operation is the oldest; so capacity + 1
\* distinct keys inserted into an empty cache leave the first one absent.
C3_StrictLRUVictim ==
    [][\A op \in Inserting :
         (Returned(op) /\ ~last'.hit /\ Size = m_capacity)
            => /\ promo # <<>>
               /\ DOMAIN m_map' =
                    ((DOMAIN m_map) \ {promo[Len(promo)]}) \cup {last'.key}
               /\ Cardinality(DOMAIN m_map') = m_capacity]_vars

\* ---- C4 ------------------------------------------------------------------
\* C4: with the constructor's deleter installed, at every point the number of
\* on_delete invocations is the number of values stored so far minus size()
\* (after destruction: every stored value has been deleted once), and every
\* invocation is made with a value that leaves the cache in that call.
C4_DeleteOncePerValue ==
    (deleter_fixed /\ pc \in {"live", "returned", "destroyed"})
        => /\ owed = Size
           /\ \A i \in 1..Len(dlog) : dlog[i].cb = m_delete_callback

\* ---- C5 ------------------------------------------------------------------
\* C5: get(key) on a resident key returns the stored value and moves the key
\* to the front of the recency order, leaving the other keys in their order;
\* no value, size() or capacity changes and no callback runs. The key promoted
\* last is not the victim of the next eviction while another key is resident.
C5_GetHitPromotes ==
    [][/\ (Called("get") /\ last'.hit)
            => /\ pc' = "returned"
               /\ last'.ok
               /\ last'.ret = m_map[last'.key].first
               /\ KeysOf(m_list') =
                    <<last'.key>> \o Without(KeysOf(m_list), last'.key)
               /\ ValuesOf(m_map') = ValuesOf(m_map)
               /\ m_capacity' = m_capacity
               /\ NoCallback
       /\ \A op \in Inserting \cup {"resize"} :
            (Returned(op) /\ Len(promo) >= 2 /\ (op = "resize" => last'.val >= 1))
                => promo[1] \in DOMAIN m_map']_vars

\* a get has hit a key of a cache that holds another key as well
C5_Witness ==
    /\ pc = "returned"
    /\ last.op = "get"
    /\ last.hit
    /\ Len(m_list) >= 2
    /\ m_list[1].key = last.key
    /\ tick >= 3

\* ---- C6 ------------------------------------------------------------------
\* C6: get(key) on an absent key calls on_create once, with key (no creator:
\* the default value), evicts the least recently used entry first if the cache
\* is at capacity, inserts (key, value) at the front and returns the value,
\* which at(key) then gives; no other call, and no get that hits, calls
\* on_create.
C6_GetMissCreates ==
    [][/\ (Called("get") /\ ~last'.hit)
            => LET key  == last'.key
                   made == m_create_callback # nullptr
                   val  == IF made THEN create_call(m_create_callback, key)
                                   ELSE DefaultValue
                   full == Size = m_capacity /\ m_list # <<>>
                   lru  == m_list[Len(m_list)].key
               IN  /\ pc' = "returned"
                   /\ clog' = IF made THEN <<key>> ELSE <<>>
                   /\ last'.ret = val
                   /\ key \in DOMAIN m_map'
                   /\ m_map'[key].first = last'.ret
                   /\ m_list'[1].key = key
                   /\ DOMAIN m_map' =
                        ((DOMAIN m_map) \ (IF full THEN {lru} ELSE {})) \cup {key}
                   /\ \A k \in (DOMAIN m_map') \ {key} :
                        m_map'[k].first = m_map[k].first
       /\ \A op \in {"insert", "insert_or_assign", "contains", "at", "get",
                     "touch", "assign", "erase", "clear", "resize",
                     "setCreateCallback", "setDeleteCallback", "~LRU_Cache"} :
            (Called(op) /\ (op # "get" \/ last'.hit)) => clog' = <<>>]_vars

\* ---- C7 ------------------------------------------------------------------
\* C7: at(key) and contains(key) change nothing: the recency order, the
\* values, size(), capacity() and the callbacks are as before and no callback
\* runs; contains tells whether the key is resident, at returns the stored
\* value of a resident key and nothing otherwise.
C7_PeeksArePure ==
    [][\A op \in {"at", "contains"} :
         Called(op)
            => /\ pc' = "returned"
               /\ UNCHANGED <<m_list, m_map, m_capacity, m_create_callback,
                              m_delete_callback>>
               /\ NoCallback
               /\ last'.ok = (last'.key \in DOMAIN m_map)
               /\ (op = "at" /\ last'.ok)
                    => last'.ret = m_map[last'.key].first]_vars

\* at has read the least recently used key of a cache holding two keys or more
C7_Witness ==
    /\ pc = "returned"
    /\ last.op = "at"
    /\ last.hit
    /\ Len(m_list) >= 2
    /\ m_list[Len(m_list)].key = last.key

\* ---- C8 ------------------------------------------------------------------
\* C8: insert(key, value) on a resident key returns false and changes
\* nothing: value, recency order, size() as before, nothing evicted even from
\* a full cache, on_delete not invoked.
C8_InsertPresentIsNoOp ==
    [][(Called("insert") /\ last'.hit)
            => /\ pc' = "returned"
               /\ ~last'.ok
               /\ UNCHANGED <<m_list, m_map, m_capacity>>
               /\ NoCallback]_vars

\* insert was called on a full cache with a resident key that is not the most
\* recently used one, and with a value other than the stored one
C8_Witness ==
    /\ pc = "returned"
    /\ last.op = "insert"
    /\ last.hit
    /\ Size = m_capacity
    /\ Len(m_list) >= 2
    /\ m_list[1].key # last.key
    /\ m_map[last.key].first # last.val

\* ---- C9 ------------------------------------------------------------------
\* C9: assign(key, value) on a resident key returns true, invokes on_delete
\* once, with the old value, moves the key to the front and stores the new
\* value; size() is unchanged, nothing is evicted, no other value changes.
C9_AssignReplaces ==
    [][(Called("assign") /\ last'.hit)
            => /\ pc' = "returned"
               /\ last'.ok
               /\ Deleted(<<m_map[last'.key].first>>)
               /\ clog' = <<>>
               /\ KeysOf(m_list') =
                    <<last'.key>> \o Without(KeysOf(m_list), last'.key)
               /\ ValuesOf(m_map') =
                    [ValuesOf(m_map) EXCEPT ![last'.key] = last'.val]
               /\ m_capacity' = m_capacity]_vars

\* assign has replaced a value by a different one, with a deleter installed,
\* in a cache that holds another key as well
C9_Witness ==
    /\ pc = "returned"
    /\ last.op = "assign"
    /\ last.hit
    /\ Len(dlog) = 1
    /\ dlog[1].val # last.val
    /\ Len(m_list) >= 2

\* ---- C10 -----------------------------------------------------------------
\* C10: erase, touch and assign with a key that is not resident return false
\* and leave size(), the recency order, the index and capacity() as they
\* were; no callback runs and nothing is inserted.
C10_AbsentKeySignalled ==
    [][\A op \in {"erase", "touch", "assign"} :
         (Called(op) /\ ~last'.hit)
            => /\ pc' = "returned"
               /\ ~last'.ok
               /\ UNCHANGED <<m_list, m_map, m_capacity, m_create_callback,
                              m_delete_callback>>
               /\ NoCallback]_vars

\* assign was called with an absent key on a cache that holds a key and has
\* room for another
C10_Witness ==
    /\ pc = "returned"
    /\ last.op = "assign"
    /\ ~last.hit
    /\ ~last.ok
    /\ Size >= 1
    /\ Size < m_capacity

\* ---- C11 -----------------------------------------------------------------
\* C11: resize(n) with n < size() sets capacity() to n and leaves exactly the
\* n most recently used entries, with their values and their order unchanged;
\* on_delete is invoked once for each removed entry. resize(0) empties the
\* cache.
C11_ResizeShrinks ==
    [][(Called("resize") /\ last'.val < Size)
            => /\ pc' = "returned"
               /\ m_capacity' = last'.val
               /\ m_list' = SubSeq(m_list, 1, last'.val)
               /\ DOMAIN m_map' = KeySet(m_list')
               /\ \A k \in DOMAIN m_map' : m_map'[k] = m_map[k]
               /\ DeletedEach(DOMAIN m_map \ DOMAIN m_map')
               /\ clog' = <<>>]_vars

\* resize has removed two entries of a cache with a deleter and kept a third
C11_Witness ==
    /\ pc = "returned"
    /\ last.op = "resize"
    /\ Len(dlog) = 2
    /\ Len(m_list) = 1
    /\ m_capacity = 1

\* ---- C12 -----------------------------------------------------------------
\* C12: clear() removes every entry (size() = 0, no key is contained),
\* invokes on_delete once for each entry that was resident and leaves
\* capacity() as it was; a cache with fewer than capacity() entries, as it is
\* after clear(), takes a new key without removing one.
C12_ClearEmpties ==
    [][/\ Called("clear")
            => /\ pc' = "returned"
               /\ m_list' = <<>>
               /\ DOMAIN m_map' = {}
               /\ m_capacity' = m_capacity
               /\ DeletedEach(DOMAIN m_map)
               /\ clog' = <<>>
               /\ UNCHANGED <<m_create_callback, m_delete_callback>>
       /\ \A op \in Inserting :
            (Called(op) /\ ~last'.hit /\ Size < m_capacity)
                => /\ pc' = "returned"
                   /\ DOMAIN m_map' = DOMAIN m_map \cup {last'.key}
                   /\ dlog' = <<>>]_vars

\* clear has removed three entries of a cache with a deleter
C12_Witness ==
    /\ pc = "returned"
    /\ last.op = "clear"
    /\ Len(dlog) = 3
    /\ m_capacity = 3
    /\ m_list = <<>>

\* ---- C13 -----------------------------------------------------------------
\* C13: erase(key) on a resident key returns true, removes that entry and no
\* other from the recency list and from the index, and invokes on_delete
\* once, with the removed value; every other key keeps its value and its
\* place relative to the others.
C13_EraseRemovesOne ==
    [][(Called("erase") /\ last'.hit)
            => /\ pc' = "returned"
               /\ last'.ok
               /\ KeysOf(m_list') = Without(KeysOf(m_list), last'.key)
               /\ DOMAIN m_map' = DOMAIN m_map \ {last'.key}
               /\ Cardinality(DOMAIN m_map') = Size - 1
               /\ \A k \in DOMAIN m_map' : m_map'[k].first = m_map[k].first
               /\ Deleted(<<m_map[last'.key].first>>)
               /\ clog' = <<>>
               /\ m_capacity' = m_capacity]_vars

\* erase has removed one of three entries, with a deleter installed
C13_Witness ==
    /\ pc = "returned"
    /\ last.op = "erase"
    /\ last.hit
    /\ last.ok
    /\ Len(dlog) = 1
    /\ Len(m_list) = 2
    /\ tick >= 3

\* ---- C14 -----------------------------------------------------------------
\* C14: touch(key) on a resident key returns true and moves the key to the
\* most recently used position; no value, no other entry's place, size() or
\* capacity() changes, and neither callback is invoked.
C14_TouchPromotes ==
    [][(Called("touch") /\ last'.hit)
            => /\ pc' = "returned"
               /\ last'.ok
               /\ KeysOf(m_list') =
                    <<last'.key>> \o Without(KeysOf(m_list), last'.key)
               /\ DOMAIN m_map' = DOMAIN m_map
               /\ ValuesOf(m_map') = ValuesOf(m_map)
               /\ m_capacity' = m_capacity
               /\ NoCallback]_vars

\* touch has moved one of three keys to the front
C14_Witness ==
    /\ pc = "returned"
    /\ last.op = "touch"
    /\ last.hit
    /\ last.ok
    /\ Len(m_list) = 3
    /\ m_list[1].key = last.key
    /\ tick = MaxTick

\* the step leaves the object as the outcome o of a method does
SameEffect(o) ==
    /\ m_list' = o.c.m_list
    /\ m_map' = o.c.m_map
    /\ m_capacity' = o.c.m_capacity
    /\ dlog' = o.c.dlog
    /\ clog' = o.c.clog
    /\ (pc' = "crashed") = o.c.crashed

\* ---- C15 -----------------------------------------------------------------
\* C15: from the same state insert_or_assign(key, value) does what
\* assign(key, value) does when key is resident and what insert(key, value)
\* does when it is absent (same recency list, index, values, size and
\* on_delete invocations), and afterwards key is always resident with the
\* given value, as the most recently used entry.
C15_InsertOrAssignEquivalent ==
    [][/\ Called("insert_or_assign")
            => /\ \E o \in (IF last'.hit
                             THEN assign(Self, last'.key, last'.val)
                             ELSE insert(Self, last'.key, last'.val)) :
                      SameEffect(o)
               /\ pc' = "returned"
               /\ last'.key \in DOMAIN m_map'
               /\ m_map'[last'.key].first = last'.val
               /\ m_list' # <<>>
               /\ m_list'[1].key = last'.key
       /\ ((Called("assign") /\ last'.hit) \/ (Called("insert") /\ ~last'.hit))
            => \E o \in insert_or_assign(Self, last'.key, last'.val) :
                  SameEffect(o)]_vars

\* the keys of the first n pairs of a list
Listed(pairs, n) == {pairs[i].first : i \in 1..n}

\* the place of the last pair with this key
LastOf(pairs, key) ==
    CHOOSE i \in 1..Len(pairs) :
        /\ pairs[i].first = key
        /\ \A j \in (i + 1)..Len(pairs) : pairs[j].first # key

\* ---- C16 -----------------------------------------------------------------
\* C16: a cache constructed from a list of (key, value) pairs is an empty
\* cache whose capacity is the number of pairs, to which insert_or_assign has
\* been applied for each pair in the order of the list: no listed key is
\* evicted while the list is loaded, each listed key is resident with the
\* value of its last occurrence, and the pair listed last is the most
\* recently used entry.
C16_ListConstructorLoads ==
    last.op = "LRU_Cache"
        => LET pairs == last.il
               empty == LRU_Cache(Len(pairs), nullptr, nullptr)
           IN  /\ pc = "returned"
               /\ m_capacity = Len(pairs)
               /\ \A n \in 0..Len(pairs) :
                    \A c \in load_loop(empty, SubSeq(pairs, 1, n)) :
                        /\ ~c.crashed
                        /\ DOMAIN c.m_map = Listed(pairs, n)
                        /\ c.dlog = <<>>
               /\ DOMAIN m_map = Listed(pairs, Len(pairs))
               /\ \A k \in DOMAIN m_map :
                    m_map[k].first = pairs[LastOf(pairs, k)].second
               /\ KeysOf(m_list) = loaded(pairs, Len(pairs))
               /\ pairs # <<>> => m_list[1].key = pairs[Len(pairs)].first
               /\ m_create_callback = nullptr
               /\ m_delete_callback = nullptr

\* a cache has been built from three pairs, the first and the last of which
\* have the same key and different values
C16_Witness ==
    /\ pc = "returned"
    /\ last.op = "LRU_Cache"
    /\ Len(last.il) = 3
    /\ last.il[1].first = last.il[3].first
    /\ last.il[1].second # last.il[3].second
    /\ last.il[2].first # last.il[3].first
    /\ Size = 2

C18_OthersKeepOrder ==
    [][(pc = "live" /\ pc' = "returned")
            => /\ Without(KeysOf(m_list'), last'.key)
                    = SelectSeq(Without(KeysOf(m_list), last'.key),
                                LAMBDA k : k \in DOMAIN m_map')
               /\ (last'.op \in {"at", "contains", "setCreateCallback",
                                 "setDeleteCallback"})
                    => KeysOf(m_list') = KeysOf(m_list)
               /\ (last'.op \in Inserting \cup {"touch", "assign"} /\ last'.ok)
                    => /\ m_list' # <<>>
                       /\ m_list'[1].key = last'.key
               /\ last'.key \in DOMAIN m_map' \ DOMAIN m_map
                    => last'.op \in Inserting]_vars

\* insert_or_assign has promoted a resident key of a cache that holds two
\* other keys
C18_Witness ==
    /\ pc = "returned"
    /\ last.op = "insert_or_assign"
    /\ last.hit
    /\ Len(m_list) = 3
    /\ m_list[1].key = last.key
    /\ tick = MaxTick

\* ---- C19 -----------------------------------------------------------------
\* C19: when resize(n) or clear() removes more than one entry, the entries
\* leave from the least recently used one towards the most recently used
\* one, on_delete is invoked in that order, once per removed entry, and the
\* removal stops when the number of resident entries is the target (n, or 0
\* for clear).
C19_TrimOldestFirst ==
    [][\A op \in {"resize", "clear"} :
         LET target  == IF op = "resize" THEN last'.val ELSE 0
             removed == Len(m_list) - target
         IN  (Called(op) /\ Size - target >= 2)
                => /\ pc' = "returned"
                   /\ Deleted([i \in 1..removed |->
                                 m_map[m_list[Len(m_list) + 1 - i].key].first])
                   /\ Len(m_list') = target
                   /\ Cardinality(DOMAIN m_map') = target
                   /\ m_list' = SubSeq(m_list, 1, target)]_vars

\* resize(1) has removed two of three entries, with different values, from a
\* cache with a deleter, and has stopped there
C19_Witness ==
    /\ pc = "returned"
    /\ last.op = "resize"
    /\ last.val = 1
    /\ Len(dlog) = 2
    /\ dlog[1].val # dlog[2].val
    /\ Len(m_list) = 1

\* the number of values equal to v that leave the cache in this step: values
\* of keys removed, and the value an assignment overwrites
Leaving(v) ==
    Cardinality({k \in DOMAIN m_map \ DOMAIN m_map' : m_map[k].first = v})
    + (IF /\ last'.op \in {"assign", "insert_or_assign"}
          /\ last'.hit
          /\ m_map[last'.key].first = v
       THEN 1 ELSE 0)

\* ---- C20 -----------------------------------------------------------------
\* C20: the delete callback invoked for a value that leaves is the one
\* installed when it leaves: setDeleteCallback(f) installs f and nothing
\* else; from then on every overwrite, eviction, erase, clear and destruction
\* invokes f for each value that leaves, whenever it was stored; and while no
\* delete callback is installed no call invokes one.
C20_DeleterAtDeparture ==
    [][(pc = "live" /\ pc' # "live")
            => /\ \A i \in 1..Len(dlog') :
                    /\ dlog'[i].cb = m_delete_callback
                    /\ dlog'[i].cb # nullptr
               /\ m_delete_callback = nullptr => dlog' = <<>>
               /\ (m_delete_callback # nullptr /\ pc' # "crashed")
                    => \A v \in AllValues :
                          Cardinality({i \in 1..Len(dlog') : dlog'[i].val = v})
                              >= Leaving(v)
               /\ IF last'.op = "setDeleteCallback"
                  THEN /\ pc' = "returned"
                       /\ m_delete_callback' = last'.cb
                       /\ UNCHANGED <<m_list, m_map, m_capacity, m_create_callback>>
                       /\ NoCallback
                  ELSE m_delete_callback' = m_delete_callback]_vars

\* in a cache built without a deleter, setDeleteCallback(f) has been called
\* and a value has then been overwritten: f was invoked with it
C20_Witness ==
    /\ pc = "returned"
    /\ last.op = "assign"
    /\ last.hit
    /\ ~deleter_fixed
    /\ m_delete_callback = "f"
    /\ Len(dlog) = 1
    /\ dlog[1].cb = "f"
    /\ tick = 2

====
